---- MODULE Spec2Model ----
(***************************************************************************)
(* Model of the three programs of the repository.                          *)
(*                                                                         *)
(* The Minesweeper knowledge-based agent of                                *)
(* src/minesweeper/minesweeper.py: the board (Minesweeper), the logical    *)
(* sentences (Sentence) and the agent (MinesweeperAI) with its entry       *)
(* points add_knowledge, make_safe_move and make_random_move.              *)
(*                                                                         *)
(* add_knowledge is modelled at the granularity of its statements: the     *)
(* entry step (lines 261-265 and the collection loop of lines 214-218),    *)
(* one step per agent-level mark_safe / mark_mine call of                  *)
(* update_safes_mines, and one step per pair (sentence_1, sentence_2)      *)
(* visited by the nested loops of add_new_sentences.                       *)
(*                                                                         *)
(* transition_model of src/pagerank/pagerank.py is modelled over exact     *)
(* rationals, and the game functions of src/tictactoe/tictactoe.py as      *)
(* operators over 3x3 boards. Each program has its own specification;      *)
(* the variables of the other programs stay at their initial values.       *)
(***************************************************************************)
EXTENDS Integers, Sequences, FiniteSets, TLC

VARIABLES
    height, width,   \* board dimensions (Minesweeper.height/width, MinesweeperAI.height/width)
    board,           \* Minesweeper.mines: the cells that really hold a mine
    moves_made,      \* MinesweeperAI.moves_made
    mines,           \* MinesweeperAI.mines
    safes,           \* MinesweeperAI.safes
    knowledge,       \* MinesweeperAI.knowledge: sequence of sentences
    pc,              \* position of the running call: "idle", "update", "resolve"
    pend_safes,      \* update_safes_mines: cells of local `safes` not yet iterated
    pend_mines,      \* update_safes_mines: cells of local `mines` not yet iterated
    i, j,            \* add_new_sentences: positions of sentence_1 and sentence_2
    op,              \* the entry point called last
    arg,             \* add_knowledge: its arguments and the position of its sentence
    ret,             \* value returned by the last make_safe_move / make_random_move
    snap,            \* <<safes, mines, knowledge>> when a saturation re-run started
    game,            \* the move driver: "none", "playing", "lost" or "halted"
    corpus,          \* pagerank: page -> set of pages it links to
    page,            \* pagerank: the current page handed to transition_model
    damping_factor,  \* pagerank: the damping factor, a rational
    prob_dist,       \* pagerank: the dict returned by transition_model
    tboard,          \* tictactoe: the board of the game being played
    ai_player,       \* tictactoe: the side that plays minimax's moves, or EMPTY
    call             \* tictactoe: the last call of result: input, action, outcome

\* the variables of pagerank and of tictactoe
pr == <<corpus, page, damping_factor, prob_dist>>
ttt == <<tboard, ai_player, call>>

vars == <<height, width, board, moves_made, mines, safes, knowledge, pc,
          pend_safes, pend_mines, i, j, op, arg, ret, snap, game, pr, ttt>>

ai == <<moves_made, mines, safes, knowledge>>

----------------------------------------------------------------------------
(* Bounds of the model *)

\* largest number of mines laid on a board
MaxMines == 2
\* largest number of observations (add_knowledge calls) in one game
MaxObs == 3
\* cap on the length of the knowledge list
MaxKnow == 18
\* largest number of pages of a corpus
MaxPages == 3

\* the board shapes <<height, width>> explored
Shapes == {<<2, 2>>, <<2, 3>>, <<3, 3>>}

\* Python's None, and the outcome of a call that never returns; neither is a cell
None == <<>>
Diverge == <<"diverge">>
NoArg == [cell |-> None, count |-> 0, at |-> 0]
NoSnap == <<>>

----------------------------------------------------------------------------
(* The board *)

Cells(h, w) == (0 .. h - 1) \X (0 .. w - 1)

AllCells == Cells(height, width)

\* the 3x3 block of positions around a cell, in or out of bounds
Block(cell) == (cell[1] - 1 .. cell[1] + 1) \X (cell[2] - 1 .. cell[2] + 1)

InBounds(c) == 0 <= c[1] /\ c[1] < height /\ 0 <= c[2] /\ c[2] < width

is_mine(cell) == cell \in board

nearby_mines(cell) ==
    Cardinality({c \in Block(cell) : c # cell /\ InBounds(c) /\ c \in board})

----------------------------------------------------------------------------
(* Sentence *)

Sentence(cells, count) == [cells |-> cells, count |-> count]

known_mines(s) == IF Cardinality(s.cells) = s.count THEN s.cells ELSE {}

\* known_safes with the test of known_mines pasted in
known_safes_pasted(s) == IF Cardinality(s.cells) = s.count THEN s.cells ELSE {}

known_safes(s) == IF s.count = 0 THEN s.cells ELSE {}

\* mark_mine that forgets `self.count -= 1`
Sentence_mark_mine_keepcount(s, cell) ==
    IF cell \in s.cells
    THEN [cells |-> s.cells \ {cell}, count |-> s.count]
    ELSE s

Sentence_mark_mine(s, cell) ==
    IF cell \in s.cells
    THEN [cells |-> s.cells \ {cell}, count |-> s.count - 1]
    ELSE s

\* mark_safe with the `self.count -= 1` of mark_mine pasted in
Sentence_mark_safe_dec(s, cell) ==
    IF cell \in s.cells
    THEN [cells |-> s.cells \ {cell}, count |-> s.count - 1]
    ELSE s

Sentence_mark_safe(s, cell) ==
    IF cell \in s.cells
    THEN [cells |-> s.cells \ {cell}, count |-> s.count]
    ELSE s

----------------------------------------------------------------------------
(* MinesweeperAI *)

board_size == height * width

\* moves_left that forgets the known mines
moves_left_nomines == board_size - Cardinality(moves_made)

moves_left == board_size - Cardinality(moves_made) - Cardinality(mines)

\* mark_mine that does not forward the cell to the sentences
mark_mine_noforward(k, cell) == k

\* the loop of mark_mine over the knowledge list
mark_mine(k, cell) == [n \in DOMAIN k |-> Sentence_mark_mine(k[n], cell)]

\* mark_safe that does not forward the cell to the sentences
mark_safe_noforward(k, cell) == k

\* the loop of mark_safe over the knowledge list
mark_safe(k, cell) == [n \in DOMAIN k |-> Sentence_mark_safe(k[n], cell)]

\* get_neighbours that does not skip the cells already known safe
get_neighbours_keepsafes(cell, count, sf, mn) ==
    LET cand == {c \in Block(cell) : c # cell}
    IN  Sentence({c \in cand : c \notin mn /\ InBounds(c)},
                 count - Cardinality({c \in cand : c \in mn}))

\* get_neighbours that drops the known mines without `count -= 1`
get_neighbours_nodec(cell, count, sf, mn) ==
    LET cand == {c \in Block(cell) : c # cell /\ c \notin sf}
    IN  Sentence({c \in cand : c \notin mn /\ InBounds(c)}, count)

\* get_neighbours, given the safes and mines sets it reads
get_neighbours(cell, count, sf, mn) ==
    LET cand == {c \in Block(cell) : c # cell /\ c \notin sf}
    IN  Sentence({c \in cand : c \notin mn /\ InBounds(c)},
                 count - Cardinality({c \in cand : c \in mn}))

\* update_safes_mines: the local set `safes` after the collection loop
collect_safes(k) == UNION {known_safes(k[n]) : n \in DOMAIN k}

\* update_safes_mines: the local set `mines` after the collection loop
collect_mines(k) == UNION {known_mines(k[n]) : n \in DOMAIN k}

\* a membership test that never finds the sentence
InKnowledge_never(s, k) == FALSE

\* `sentence in self.knowledge` (Sentence.__eq__ is structural)
InKnowledge(s, k) == \E n \in DOMAIN k : k[n] = s

\* the loop body with the two counts subtracted the wrong way round
resolve_pair_swapped(k, s1, s2) ==
    IF s1 = s2
    THEN k
    ELSE IF s1.cells \subseteq s2.cells
         THEN LET new_sentence == Sentence(s2.cells \ s1.cells, s1.count - s2.count)
              IN  IF ~InKnowledge(new_sentence, k)
                  THEN Append(k, new_sentence)
                  ELSE k
         ELSE k

\* the loop body with `sentence_2.count` taken as the new count
resolve_pair_keepcount(k, s1, s2) ==
    IF s1 = s2
    THEN k
    ELSE IF s1.cells \subseteq s2.cells
         THEN LET new_sentence == Sentence(s2.cells \ s1.cells, s2.count)
              IN  IF ~InKnowledge(new_sentence, k)
                  THEN Append(k, new_sentence)
                  ELSE k
         ELSE k

\* one iteration of the inner loop body of add_new_sentences
resolve_pair(k, s1, s2) ==
    IF s1 = s2
    THEN k
    ELSE IF s1.cells \subseteq s2.cells
         THEN LET new_sentence == Sentence(s2.cells \ s1.cells, s2.count - s1.count)
              IN  IF ~InKnowledge(new_sentence, k)
                  THEN Append(k, new_sentence)
                  ELSE k
         ELSE k

----------------------------------------------------------------------------
(* pagerank: exact rationals, and transition_model *)

\* a rational number num / den, den > 0
Rat(n, d) == [num |-> n, den |-> d]
RatAdd(a, b) == Rat(a.num * b.den + b.num * a.den, a.den * b.den)
RatSub(a, b) == Rat(a.num * b.den - b.num * a.den, a.den * b.den)
\* a / n for a positive integer n
RatDiv(a, n) == Rat(a.num, a.den * n)
RatEq(a, b) == a.num * b.den = b.num * a.den
RatOne == Rat(1, 1)

\* sum(prob_dist.values())
RECURSIVE RatSum(_, _)
RatSum(f, S) ==
    IF S = {}
    THEN Rat(0, 1)
    ELSE LET p == CHOOSE q \in S : TRUE
         IN  RatAdd(f[p], RatSum(f, S \ {p}))

\* DAMPING = 0.85
DAMPING == Rat(17, 20)
\* the damping factors explored
Dampings == {DAMPING, Rat(1, 2)}

\* the corpora crawl can return over the page names P: every link leads to
\* a page of the corpus, and no page links to itself
Corpora(P) == {c \in [P -> SUBSET P] : \A p \in P : p \notin c[p]}

\* transition_model(corpus, page, damping_factor): the dict it returns
transition_model(c, pg, d) ==
    LET number_of_pages == Cardinality(DOMAIN c)
    IN  [p \in DOMAIN c |->
            LET rank == RatDiv(RatSub(RatOne, d), number_of_pages)
            IN  IF Cardinality(c[pg]) = 0
                THEN rank
                ELSE IF p \in c[pg]
                     THEN RatAdd(rank, RatDiv(d, Cardinality(c[pg])))
                     ELSE rank]

\* no corpus loaded, nothing computed
NoPagerank ==
    /\ corpus = <<>>
    /\ page = 0
    /\ damping_factor = DAMPING
    /\ prob_dist = <<>>

----------------------------------------------------------------------------
(* tictactoe: the game functions *)

X == "X"
O == "O"
\* EMPTY = None; also the None that check_win and winner return
EMPTY == "EMPTY"

\* range(len(board))
N3 == 0 .. 2

initial_state == [r \in N3 |-> [c \in N3 |-> EMPTY]]

\* row.count(p)
row_count(row, p) ==
    (IF row[0] = p THEN 1 ELSE 0) + (IF row[1] = p THEN 1 ELSE 0)
        + (IF row[2] = p THEN 1 ELSE 0)

player(b) ==
    LET x_count == row_count(b[0], X) + row_count(b[1], X) + row_count(b[2], X)
        o_count == row_count(b[0], O) + row_count(b[1], O) + row_count(b[2], O)
    IN  IF x_count <= o_count THEN X ELSE O

actions(b) == {a \in N3 \X N3 : b[a[1]][a[2]] = EMPTY}

\* result that writes the move into the board it was given, with no deepcopy
result_nocopy(b, a) ==
    IF b[a[1]][a[2]] # EMPTY
    THEN [raised |-> TRUE, ret |-> None, board |-> b]
    ELSE [raised |-> FALSE, ret |-> [b EXCEPT ![a[1]][a[2]] = player(b)],
          board |-> [b EXCEPT ![a[1]][a[2]] = player(b)]]

\* result(board, action): whether it raised InvalidActionError, the board it
\* returned, and the input board as the call left it
result(b, a) ==
    IF b[a[1]][a[2]] # EMPTY
    THEN [raised |-> TRUE, ret |-> None, board |-> b]
    ELSE [raised |-> FALSE, ret |-> [b EXCEPT ![a[1]][a[2]] = player(b)], board |-> b]

\* check_win on the three marks of a row, column or diagonal
check_win(row) ==
    IF row[1] = X /\ row[2] = X /\ row[3] = X
    THEN X
    ELSE IF row[1] = O /\ row[2] = O /\ row[3] = O
         THEN O
         ELSE EMPTY

\* winner from iteration k of its loop on: row k, column k, ..., then the
\* two diagonals
RECURSIVE winner_from(_, _)
winner_from(b, k) ==
    IF k > 2
    THEN LET diagonal1 == check_win(<<b[0][0], b[1][1], b[2][2]>>)
         IN  IF diagonal1 # EMPTY
             THEN diagonal1
             ELSE check_win(<<b[0][2], b[1][1], b[2][0]>>)
    ELSE LET row == check_win(<<b[k][0], b[k][1], b[k][2]>>)
         IN  IF row # EMPTY
             THEN row
             ELSE LET column == check_win(<<b[0][k], b[1][k], b[2][k]>>)
                  IN  IF column # EMPTY
                      THEN column
                      ELSE winner_from(b, k + 1)

winner(b) == winner_from(b, 0)

terminal(b) == winner(b) # EMPTY \/ actions(b) = {}

utility(b) ==
    LET w == winner(b)
    IN  IF w = X THEN 1 ELSE IF w = O THEN -1 ELSE 0

Max(S) == CHOOSE x \in S : \A y \in S : y <= x
Min(S) == CHOOSE x \in S : \A y \in S : y >= x

\* the marks of a cell, and the boards on which X has made as many moves
\* as O or one more: every board that alternate moves from initial_state
\* can produce, finished or not
Marks == {X, O, EMPTY}
LegalBoards ==
    {b \in [N3 -> [N3 -> Marks]] :
        (row_count(b[0], X) + row_count(b[1], X) + row_count(b[2], X))
            - (row_count(b[0], O) + row_count(b[1], O) + row_count(b[2], O)) \in {0, 1}}
\* the legal boards by their number of EMPTY cells
BoardsWith == [k \in 0 .. 9 |-> {b \in LegalBoards : Cardinality(actions(b)) = k}]

\* max_value and min_value on the legal boards with k EMPTY cells, for k
\* from 0 up to n. The two functions call each other on
\* result(board, action), a board with one EMPTY cell fewer, so their
\* recursion is tabulated from the full boards upwards (`@@ <<>>` makes
\* each layer an explicit table, computed once)
RECURSIVE ValuesUpTo(_)
ValuesUpTo(n) ==
    LET before == IF n = 0 THEN <<>> ELSE ValuesUpTo(n - 1)
        below == IF n = 0 THEN [max_value |-> <<>>, min_value |-> <<>>] ELSE before[n]
    IN  Append(before,
            [max_value |->
                [b \in BoardsWith[n] |->
                    IF terminal(b)
                    THEN utility(b)
                    ELSE Max({-2} \cup {below.min_value[result(b, a).ret] : a \in actions(b)})] @@ <<>>,
             min_value |->
                [b \in BoardsWith[n] |->
                    IF terminal(b)
                    THEN utility(b)
                    ELSE Min({2} \cup {below.max_value[result(b, a).ret] : a \in actions(b)})] @@ <<>>])

Values == ValuesUpTo(9)

max_value(b) == Values[Cardinality(actions(b)) + 1].max_value[b]

min_value(b) == Values[Cardinality(actions(b)) + 1].min_value[b]

\* minimax whose X branch keeps the lower score
minimax_worst(b) ==
    IF terminal(b)
    THEN {None}
    ELSE IF player(b) = X
         THEN LET score == [a \in actions(b) |-> min_value(result(b, a).ret)]
                  best_score == Min({score[a] : a \in actions(b)})
              IN  {a \in actions(b) : score[a] = best_score}
         ELSE LET score == [a \in actions(b) |-> max_value(result(b, a).ret)]
                  best_score == Min({score[a] : a \in actions(b)})
              IN  {a \in actions(b) : score[a] = best_score}

\* minimax(board): the values it can return, over every iteration order of
\* the set actions(board). best_move is replaced only by a strictly better
\* score, so it ends as the first action of the order with the best score
minimax(b) ==
    IF terminal(b)
    THEN {None}
    ELSE IF player(b) = X
         THEN LET score == [a \in actions(b) |-> min_value(result(b, a).ret)]
                  best_score == Max({score[a] : a \in actions(b)})
              IN  {a \in actions(b) : score[a] = best_score}
         ELSE LET score == [a \in actions(b) |-> max_value(result(b, a).ret)]
                  best_score == Min({score[a] : a \in actions(b)})
              IN  {a \in actions(b) : score[a] = best_score}

NoCall == [board |-> initial_state, action |-> None, raised |-> FALSE,
           ret |-> None, after |-> initial_state]

\* no game of tictactoe under way
NoTicTacToe ==
    /\ tboard = initial_state
    /\ ai_player = EMPTY
    /\ call = NoCall

----------------------------------------------------------------------------
(* Initial state: a board with its mines laid, and a fresh agent *)

\* MinesweeperAI.__init__, with no call made yet
FreshAI ==
    /\ moves_made = {}
    /\ mines = {}
    /\ safes = {}
    /\ knowledge = <<>>
    /\ pc = "idle"
    /\ pend_safes = {}
    /\ pend_mines = {}
    /\ i = 0
    /\ j = 0
    /\ op = "init"
    /\ arg = NoArg
    /\ ret = None
    /\ snap = NoSnap

Init ==
    /\ \E sh \in Shapes : height = sh[1] /\ width = sh[2]
    /\ board \in {b \in SUBSET Cells(height, width) : Cardinality(b) <= MaxMines}
    /\ FreshAI
    /\ game = "none"
    /\ NoPagerank
    /\ NoTicTacToe

----------------------------------------------------------------------------
(* add_knowledge *)

\* lines 261-265, then the collection loop of update_safes_mines (214-218)
AddKnowledge(cell, count) ==
    /\ pc = "idle"
    /\ LET sf == safes \cup {cell}
           k1 == mark_safe(knowledge, cell)
           k2 == Append(k1, get_neighbours(cell, count, sf, mines))
       IN  /\ moves_made' = moves_made \cup {cell}
           /\ safes' = sf
           /\ knowledge' = k2
           /\ pend_safes' = collect_safes(k2)
           /\ pend_mines' = collect_mines(k2)
           /\ arg' = [cell |-> cell, count |-> count, at |-> Len(k2)]
    /\ pc' = "update"
    /\ op' = "add_knowledge"
    /\ ret' = None
    /\ snap' = NoSnap
    /\ UNCHANGED <<pr, ttt, game, height, width, board, mines, i, j>>

\* the board oracle: a revealed cell that is no mine, with its true count
Observe ==
    \E cell \in AllCells :
        /\ ~is_mine(cell)
        /\ cell \notin moves_made
        /\ Cardinality(moves_made) < MaxObs
        /\ AddKnowledge(cell, nearby_mines(cell))

\* update_safes_mines, lines 220-222: one self.mark_safe(safe)
UpdateMarkSafe ==
    /\ pc = "update"
    /\ \E safe \in pend_safes :
        /\ safes' = safes \cup {safe}
        /\ knowledge' = mark_safe(knowledge, safe)
        /\ pend_safes' = pend_safes \ {safe}
    /\ UNCHANGED <<pr, ttt, game, height, width, board, moves_made, mines, pc, pend_mines,
                   i, j, op, arg, ret, snap>>

\* one self.mark_mine(mine) that assigns the set instead of adding to it
UpdateMarkMine_assign ==
    /\ pc = "update"
    /\ pend_safes = {}
    /\ \E mine \in pend_mines :
        /\ mines' = {mine}
        /\ knowledge' = mark_mine(knowledge, mine)
        /\ pend_mines' = pend_mines \ {mine}
    /\ UNCHANGED <<pr, ttt, game, height, width, board, moves_made, safes, pc, pend_safes,
                   i, j, op, arg, ret, snap>>

\* update_safes_mines, lines 223-225: one self.mark_mine(mine)
UpdateMarkMine ==
    /\ pc = "update"
    /\ pend_safes = {}
    /\ \E mine \in pend_mines :
        /\ mines' = mines \cup {mine}
        /\ knowledge' = mark_mine(knowledge, mine)
        /\ pend_mines' = pend_mines \ {mine}
    /\ UNCHANGED <<pr, ttt, game, height, width, board, moves_made, safes, pc, pend_safes,
                   i, j, op, arg, ret, snap>>

\* update_safes_mines returns and add_new_sentences starts its loops
UpdateDone ==
    /\ pc = "update"
    /\ pend_safes = {}
    /\ pend_mines = {}
    /\ IF Len(knowledge) = 0
       THEN pc' = "idle" /\ i' = 0 /\ j' = 0
       ELSE pc' = "resolve" /\ i' = 1 /\ j' = 1
    /\ UNCHANGED <<pr, ttt, game, height, width, board, moves_made, mines, safes, knowledge,
                   pend_safes, pend_mines, op, arg, ret, snap>>

\* add_new_sentences, lines 231-244: the loop body for one pair, then the
\* advance of the two list iterators over the (possibly longer) list
ResolveStep ==
    /\ pc = "resolve"
    /\ LET k2 == resolve_pair(knowledge, knowledge[i], knowledge[j])
       IN  /\ Len(k2) <= MaxKnow
           /\ knowledge' = k2
           /\ IF j < Len(k2)
              THEN pc' = "resolve" /\ i' = i /\ j' = j + 1
              ELSE IF i < Len(k2)
                   THEN pc' = "resolve" /\ i' = i + 1 /\ j' = 1
                   ELSE pc' = "idle" /\ i' = 0 /\ j' = 0
    /\ UNCHANGED <<pr, ttt, game, height, width, board, moves_made, mines, safes,
                   pend_safes, pend_mines, op, arg, ret, snap>>

----------------------------------------------------------------------------
(* The move queries *)

\* make_safe_move that does not look at moves_made
make_safe_move_any == IF Cardinality(safes) = 0 THEN {None} ELSE safes

\* make_safe_move: the values it can return, over every iteration order
\* of the set self.safes
make_safe_move ==
    IF Cardinality(safes) = 0
    THEN {None}
    ELSE IF \E move \in safes : move \notin moves_made
         THEN {move \in safes : move \notin moves_made}
         ELSE {None}

\* make_random_move: the values it can return, over every outcome of
\* random.randrange; with no acceptable cell the sampling loop never ends
make_random_move ==
    IF moves_left = 0
    THEN {None}
    ELSE IF \E cell \in AllCells : cell \notin moves_made /\ cell \notin mines
         THEN {cell \in AllCells : cell \notin moves_made /\ cell \notin mines}
         ELSE {Diverge}

MakeSafeMove ==
    /\ pc = "idle"
    /\ ret' \in make_safe_move
    /\ op' = "make_safe_move"
    /\ UNCHANGED <<pr, ttt, game, height, width, board, moves_made, mines, safes, knowledge,
                   pc, pend_safes, pend_mines, i, j, arg, snap>>

MakeRandomMove ==
    /\ pc = "idle"
    /\ ret' \in make_random_move
    /\ op' = "make_random_move"
    /\ UNCHANGED <<pr, ttt, game, height, width, board, moves_made, mines, safes, knowledge,
                   pc, pend_safes, pend_mines, i, j, arg, snap>>

----------------------------------------------------------------------------
(* A second run of the saturation step, with no new observation *)

\* update_safes_mines() then add_new_sentences(), called once more after
\* add_knowledge has returned
Resaturate ==
    /\ pc = "idle"
    /\ op = "add_knowledge"
    /\ snap' = <<safes, mines, knowledge>>
    /\ pend_safes' = collect_safes(knowledge)
    /\ pend_mines' = collect_mines(knowledge)
    /\ pc' = "update"
    /\ op' = "resaturate"
    /\ ret' = None
    /\ UNCHANGED <<pr, ttt, game, height, width, board, moves_made, mines, safes, knowledge,
                   i, j, arg>>

----------------------------------------------------------------------------

\* the steps of a running add_knowledge call
Step == UpdateMarkSafe \/ UpdateMarkMine \/ UpdateDone \/ ResolveStep

\* a game: observations of revealed cells, each run to its end
Next == Observe \/ Step

Spec == Init /\ [][Next]_vars

\* a call that has started runs on: nothing suspends or cancels it
FairSpec == Spec /\ WF_vars(Step)

\* a game in which the agent is also asked for moves
NextMoves == Next \/ MakeSafeMove \/ MakeRandomMove

SpecMoves == Init /\ [][NextMoves]_vars

\* a game in which the saturation step is also run a second time
NextResat == Next \/ Resaturate

SpecResat == Init /\ [][NextResat]_vars

----------------------------------------------------------------------------
(* The move driver: reveal a cell, record the observation, ask for a move *)

\* a move has been returned and its cell is not revealed yet
MovePending == op \in {"make_safe_move", "make_random_move"} /\ ret \in AllCells

\* the agent is asked for its next move: make_safe_move, then
\* make_random_move if that returned None; the driver halts when both
\* return None, and the game is lost when the move is a mine
DriverMove ==
    /\ game = "playing"
    /\ pc = "idle"
    /\ ~MovePending
    /\ \E safe_move \in make_safe_move :
        IF safe_move # None
        THEN /\ ret' = safe_move
             /\ op' = "make_safe_move"
             /\ game' = IF is_mine(safe_move) THEN "lost" ELSE "playing"
        ELSE \E random_move \in make_random_move :
                /\ random_move # Diverge
                /\ ret' = random_move
                /\ op' = "make_random_move"
                /\ game' = IF random_move = None
                           THEN "halted"
                           ELSE IF is_mine(random_move) THEN "lost" ELSE "playing"
    /\ UNCHANGED <<pr, ttt, height, width, board, moves_made, mines, safes,
                   knowledge, pc, pend_safes, pend_mines, i, j, arg, snap>>

\* the move is made on the board and the revealed count is recorded
DriverObserve ==
    /\ game = "playing"
    /\ MovePending
    /\ AddKnowledge(ret, nearby_mines(ret))

\* the board shapes on which whole games are played
DriverShapes == {<<2, 2>>, <<2, 3>>}

InitDriver ==
    /\ \E sh \in DriverShapes : height = sh[1] /\ width = sh[2]
    /\ board \in {b \in SUBSET Cells(height, width) : Cardinality(b) <= MaxMines}
    /\ FreshAI
    /\ game = "playing"
    /\ NoPagerank
    /\ NoTicTacToe

NextDriver == DriverMove \/ DriverObserve \/ Step

\* the driver and the calls it makes run on
SpecDriver == InitDriver /\ [][NextDriver]_vars /\ WF_vars(NextDriver)

----------------------------------------------------------------------------
(* pagerank: transition_model as sample_pagerank calls it *)

\* a fresh Minesweeper program that is never played
NoMinesweeper ==
    /\ height = 0
    /\ width = 0
    /\ board = {}
    /\ FreshAI
    /\ game = "none"

InitPagerank ==
    /\ NoMinesweeper
    /\ NoTicTacToe
    /\ \E n \in 1 .. MaxPages : corpus \in Corpora(1 .. n)
    /\ page \in DOMAIN corpus
    /\ damping_factor \in Dampings
    /\ prob_dist = <<>>

\* prob_dist = transition_model(corpus, current_page, damping_factor)
TransitionModel ==
    /\ DOMAIN prob_dist = {}
    /\ prob_dist' = transition_model(corpus, page, damping_factor)
    /\ UNCHANGED <<corpus, page, damping_factor, ttt, game, height, width,
                   board, moves_made, mines, safes, knowledge, pc, pend_safes,
                   pend_mines, i, j, op, arg, ret, snap>>

\* random.choices(keys, weights): the next current page
NextPage ==
    /\ DOMAIN prob_dist # {}
    /\ page' \in {p \in DOMAIN prob_dist : prob_dist[p].num > 0}
    /\ prob_dist' = <<>>
    /\ UNCHANGED <<corpus, damping_factor, ttt, game, height, width,
                   board, moves_made, mines, safes, knowledge, pc, pend_safes,
                   pend_mines, i, j, op, arg, ret, snap>>

NextPagerank == TransitionModel \/ NextPage

SpecPagerank == InitPagerank /\ [][NextPagerank]_vars

----------------------------------------------------------------------------
(* tictactoe: games, and calls of result *)

\* a game from initial_state; ai_player, if any, plays minimax's moves
InitTicTacToe ==
    /\ NoMinesweeper
    /\ NoPagerank
    /\ tboard = initial_state
    /\ ai_player \in {X, O, EMPTY}
    /\ call = NoCall

\* a side that is not ai_player makes any of the possible moves
Move ==
    /\ ~terminal(tboard)
    /\ player(tboard) # ai_player
    /\ \E action \in actions(tboard) : tboard' = result(tboard, action).ret
    /\ UNCHANGED <<ai_player, call, pr, game, height, width,
                   board, moves_made, mines, safes, knowledge, pc, pend_safes,
                   pend_mines, i, j, op, arg, ret, snap>>

\* ai_player makes the move minimax returns
AIMove ==
    /\ ~terminal(tboard)
    /\ player(tboard) = ai_player
    /\ \E action \in minimax(tboard) : tboard' = result(tboard, action).ret
    /\ UNCHANGED <<ai_player, call, pr, game, height, width,
                   board, moves_made, mines, safes, knowledge, pc, pend_safes,
                   pend_mines, i, j, op, arg, ret, snap>>

NextTicTacToe == Move \/ AIMove

SpecTicTacToe == InitTicTacToe /\ [][NextTicTacToe]_vars

InitResult ==
    /\ NoMinesweeper
    /\ NoPagerank
    /\ NoTicTacToe

\* result(board, action) called with any cell of the board; the caller goes
\* on with the board returned, or with its own board when the call raised
CallResult ==
    /\ \E action \in N3 \X N3 :
        LET r == result(tboard, action)
        IN  /\ call' = [board |-> tboard, action |-> action, raised |-> r.raised,
                        ret |-> r.ret, after |-> r.board]
            /\ tboard' = IF r.raised THEN r.board ELSE r.ret
    /\ UNCHANGED <<ai_player, pr, game, height, width,
                   board, moves_made, mines, safes, knowledge, pc, pend_safes,
                   pend_mines, i, j, op, arg, ret, snap>>

SpecResult == InitResult /\ [][CallResult]_vars

----------------------------------------------------------------------------
(* Properties *)

\* the in-bounds neighbours of a cell
Nbrs(cell) == {c \in Block(cell) : c # cell /\ InBounds(c)}

Returned == pc = "idle" /\ op = "add_knowledge"

\* C1: after every add_knowledge call on a non-mine cell with its true
\* count has returned, safes and mines are disjoint.
C1_SafesMinesDisjoint == (pc = "idle") => (safes \cap mines = {})

C1_Witness == Returned /\ Cardinality(safes) > 1 /\ mines # {}

\* C2: at every point of a run, also between the mark_safe / mark_mine
\* steps of update_safes_mines and after every append of add_new_sentences,
\* every sentence of the knowledge list has 0 <= count <= |cells|.
C2_CountWithinCells ==
    \A n \in DOMAIN knowledge :
        0 <= knowledge[n].count /\ knowledge[n].count <= Cardinality(knowledge[n].cells)

C2_Witness ==
    /\ pc = "update"
    /\ mines # {}
    /\ pend_mines # {}
    /\ \E n \in DOMAIN knowledge : knowledge[n].count > 0

\* C3: when add_knowledge has returned, no sentence of the knowledge list
\* contains a cell of safes or of mines.
C3_ClassifiedCellsRemoved ==
    Returned =>
        \A n \in DOMAIN knowledge : knowledge[n].cells \cap (safes \cup mines) = {}

C3_Witness ==
    /\ Returned
    /\ mines # {}
    /\ Len(knowledge) > arg.at
    /\ \E n \in DOMAIN knowledge : knowledge[n].cells # {}

\* C4: when add_knowledge has returned, no sentence of the knowledge list
\* yields a known_safes() or known_mines() cell that is not in safes / mines.
C4_Rule1Quiescent ==
    Returned =>
        \A n \in DOMAIN knowledge :
            /\ known_safes(knowledge[n]) \subseteq safes
            /\ known_mines(knowledge[n]) \subseteq mines

\* C5: when add_knowledge has returned, for sentences A and B of the
\* knowledge list with A.cells a strict subset of B.cells, the sentence
\* (B.cells - A.cells, B.count - A.count) is in the list and, when it is
\* conclusive, its cells are in safes (count 0) or in mines (count = size).
\* Stated for a sentence A that has cells, so that the sentence derived is
\* not B itself.
C5_Rule2Classified ==
    Returned =>
        \A a, b \in DOMAIN knowledge :
            (knowledge[a].cells # {}
                /\ knowledge[a].cells \subseteq knowledge[b].cells
                /\ knowledge[a].cells # knowledge[b].cells) =>
                LET d == Sentence(knowledge[b].cells \ knowledge[a].cells,
                                  knowledge[b].count - knowledge[a].count)
                IN  /\ InKnowledge(d, knowledge)
                    /\ known_safes(d) \subseteq safes
                    /\ known_mines(d) \subseteq mines

\* C6: a second run of update_safes_mines and add_new_sentences, started
\* after add_knowledge returned, ends with safes, mines and the knowledge
\* list as they were when it started.
C6_Idempotent ==
    (pc = "idle" /\ op = "resaturate") => snap = <<safes, mines, knowledge>>

\* C7: every add_knowledge call that has started returns: the loops of
\* add_new_sentences over the growing knowledge list finish.
C7_Terminates == (pc # "idle") ~> (pc = "idle")

C7_Witness == pc = "resolve" /\ op = "add_knowledge" /\ i > arg.at

\* C8: make_safe_move returns a cell of safes not in moves_made when there
\* is one, None exactly when safes is a subset of moves_made, and changes
\* neither moves_made, safes, mines nor the knowledge list.
C8_SafeMove ==
    [][op' = "make_safe_move" =>
        /\ (ret' = None) <=> (safes \subseteq moves_made)
        /\ (ret' # None) => (ret' \in safes \ moves_made)
        /\ UNCHANGED ai]_vars

C8_Witness ==
    /\ op = "make_safe_move"
    /\ ret \in safes
    /\ moves_made # {}

\* C9: make_random_move returns None exactly when every cell of the board
\* is in moves_made or mines, and otherwise an in-bounds cell that is in
\* neither.
C9_RandomMove ==
    (op = "make_random_move") =>
        /\ (ret = None) <=> (AllCells \subseteq moves_made \cup mines)
        /\ (ret # None) => (ret \in AllCells \ (moves_made \cup mines))

C9_Witness ==
    /\ op = "make_random_move"
    /\ ret = None
    /\ height = 2 /\ width = 2
    /\ Cardinality(moves_made) = 3
    /\ Cardinality(mines) = 1

\* C10 as stated: an observation with count 0 puts all in-bounds
\* neighbours of the cell in safes within the call and leaves no sentence
\* of that observation in the knowledge list.
C10_NoResidualSentence ==
    (Returned /\ arg.count = 0) =>
        /\ Nbrs(arg.cell) \subseteq safes
        /\ Len(knowledge) < arg.at

\* C10 amended: an observation with count 0 puts all in-bounds neighbours
\* of the cell in safes within the call and leaves of that observation
\* only the vacuous sentence (no cells, count 0) in the knowledge list.
C10_VacuousResidual ==
    (Returned /\ arg.count = 0) =>
        /\ Nbrs(arg.cell) \subseteq safes
        /\ arg.at \in DOMAIN knowledge
        /\ knowledge[arg.at] = Sentence({}, 0)

C10_Witness ==
    /\ Returned
    /\ height = 3 /\ width = 3
    /\ arg.cell = <<1, 1>>
    /\ arg.count = 0
    /\ Cardinality(safes) = 9
    /\ knowledge = <<Sentence({}, 0)>>

\* C11: no step of a game removes a cell from safes or from mines, so
\* |safes| + |mines| never decreases across add_knowledge calls.
C11_Monotonic ==
    [][/\ safes \subseteq safes'
       /\ mines \subseteq mines'
       /\ Cardinality(safes) + Cardinality(mines)
            <= Cardinality(safes') + Cardinality(mines')]_vars

C11_Witness ==
    /\ Returned
    /\ Cardinality(moves_made) >= 2
    /\ Cardinality(mines) >= 2
    /\ Cardinality(safes) > Cardinality(moves_made)

\* C15: when add_knowledge has returned, for every two structurally
\* distinct sentences A and B of the knowledge list with A.cells a subset
\* of B.cells, the sentence (B.cells - A.cells, B.count - A.count) is in
\* the knowledge list.
C15_ResolutionClosed ==
    Returned =>
        \A a, b \in DOMAIN knowledge :
            (knowledge[a] # knowledge[b]
                /\ knowledge[a].cells \subseteq knowledge[b].cells) =>
                InKnowledge(Sentence(knowledge[b].cells \ knowledge[a].cells,
                                     knowledge[b].count - knowledge[a].count),
                            knowledge)

C15_Witness ==
    /\ Returned
    /\ Len(knowledge) > arg.at + 1
    /\ \E a, b \in DOMAIN knowledge :
        /\ a > arg.at
        /\ knowledge[a].cells # {}
        /\ knowledge[a].cells \subseteq knowledge[b].cells
        /\ knowledge[a].cells # knowledge[b].cells

\* C16: the sentence that add_knowledge(cell, count) appends has as cells
\* the in-bounds neighbours of cell that are neither in safes nor in mines
\* (cell already marked safe) and as count the reported count minus the
\* number of neighbours already in mines.
C16_ObservationSentence ==
    [][(pc = "idle" /\ pc' = "update" /\ op' = "add_knowledge") =>
        /\ moves_made' = moves_made \cup {arg'.cell}
        /\ arg'.cell \in safes'
        /\ Len(knowledge') = Len(knowledge) + 1
        /\ arg'.at = Len(knowledge')
        /\ knowledge'[arg'.at].cells =
              {c \in Nbrs(arg'.cell) : c \notin safes' /\ c \notin mines'}
        /\ knowledge'[arg'.at].count =
              arg'.count - Cardinality(Nbrs(arg'.cell) \cap mines')]_vars

C16_Witness ==
    /\ pc = "update"
    /\ op = "add_knowledge"
    /\ pend_safes = collect_safes(knowledge)
    /\ pend_mines = collect_mines(knowledge)
    /\ Nbrs(arg.cell) \cap mines # {}
    /\ Nbrs(arg.cell) \cap safes # {}
    /\ knowledge[arg.at].cells # {}

\* the cell of the mark_safe call of a step of update_safes_mines
MarkedSafe == CHOOSE c \in pend_safes : c \notin pend_safes'

\* the cell of the mark_mine call of a step of update_safes_mines
MarkedMine == CHOOSE c \in pend_mines : c \notin pend_mines'

\* C17: mark_mine(c) adds c to mines and, in every sentence that contains
\* c, removes c and takes 1 from count; mark_safe(c) adds c to safes and
\* removes c from every sentence that contains it, count unchanged; the
\* sentences without c, the other set, moves_made and the number and
\* order of the sentences are unchanged.
C17_MarkFrame ==
    [][/\ (pc = "update" /\ pend_mines' # pend_mines) =>
            /\ mines' = mines \cup {MarkedMine}
            /\ safes' = safes
            /\ moves_made' = moves_made
            /\ DOMAIN knowledge' = DOMAIN knowledge
            /\ \A n \in DOMAIN knowledge :
                IF MarkedMine \in knowledge[n].cells
                THEN /\ knowledge'[n].cells = knowledge[n].cells \ {MarkedMine}
                     /\ knowledge'[n].count = knowledge[n].count - 1
                ELSE knowledge'[n] = knowledge[n]
       /\ (pc = "update" /\ pend_safes' # pend_safes) =>
            /\ safes' = safes \cup {MarkedSafe}
            /\ mines' = mines
            /\ moves_made' = moves_made
            /\ DOMAIN knowledge' = DOMAIN knowledge
            /\ \A n \in DOMAIN knowledge :
                IF MarkedSafe \in knowledge[n].cells
                THEN /\ knowledge'[n].cells = knowledge[n].cells \ {MarkedSafe}
                     /\ knowledge'[n].count = knowledge[n].count
                ELSE knowledge'[n] = knowledge[n]]_vars

C17_Witness ==
    /\ pc = "update"
    /\ Cardinality(mines) = 1
    /\ pend_mines # {}
    /\ Len(knowledge) >= 2
    /\ \E n \in DOMAIN knowledge : knowledge[n].cells \cap pend_mines # {}
    /\ \E n \in DOMAIN knowledge : knowledge[n].cells # {}
                                       /\ knowledge[n].cells \cap pend_mines = {}

\* C18: under truthful observations no cell of safes is a mine of the
\* board, every cell of mines is one, and make_safe_move never returns a
\* mined cell.
C18_SoundOnBoard ==
    /\ safes \cap board = {}
    /\ mines \subseteq board
    /\ (op = "make_safe_move") => (ret \notin board)

C18_Witness ==
    /\ op = "make_safe_move"
    /\ ret \in safes
    /\ ret \notin moves_made
    /\ mines # {}
    /\ board \ mines # {}

\* C19: under truthful observations every sentence of the knowledge list
\* is true of the board at every point: its count is the number of mines
\* among its cells.
C19_SentencesTrue ==
    \A n \in DOMAIN knowledge :
        knowledge[n].count = Cardinality(knowledge[n].cells \cap board)

C19_Witness ==
    /\ pc = "resolve"
    /\ mines # {}
    /\ Len(knowledge) > arg.at
    /\ knowledge[Len(knowledge)].count > 0
    /\ Cardinality(knowledge[Len(knowledge)].cells) > knowledge[Len(knowledge)].count

----------------------------------------------------------------------------
\* C12: the dict transition_model returns has every page of the corpus as a
\* key, its values sum to 1 (also when the current page has no outgoing
\* links), and the value of each page is (1 - d)/N, plus d/|links(page)| if
\* the current page links to it
C12_Distribution ==
    (DOMAIN prob_dist # {}) =>
        /\ DOMAIN prob_dist = DOMAIN corpus
        /\ RatEq(RatSum(prob_dist, DOMAIN prob_dist), RatOne)
        /\ \A p \in DOMAIN corpus :
            LET base == RatDiv(RatSub(RatOne, damping_factor), Cardinality(DOMAIN corpus))
            IN  IF p \in corpus[page]
                THEN RatEq(prob_dist[p],
                           RatAdd(base, RatDiv(damping_factor, Cardinality(corpus[page]))))
                ELSE RatEq(prob_dist[p], base)

----------------------------------------------------------------------------
\* C14: a call of result on a cell that is not EMPTY raises
\* InvalidActionError and leaves the board as it was; a call on an EMPTY
\* cell returns a board that holds player(board) at that cell and equals the
\* input everywhere else, and the input board is as it was before the call
C14_Result ==
    (call.action # None) =>
        LET b == call.board
            a == call.action
        IN  IF b[a[1]][a[2]] # EMPTY
            THEN /\ call.raised
                 /\ call.after = b
                 /\ tboard = b
            ELSE /\ ~call.raised
                 /\ call.after = b
                 /\ call.ret[a[1]][a[2]] = player(b)
                 /\ \A c \in (N3 \X N3) \ {a} : call.ret[c[1]][c[2]] = b[c[1]][c[2]]
                 /\ tboard = call.ret

\* a call on an occupied cell, in a game in which both sides have moved
C14_Witness ==
    /\ call.action # None
    /\ call.raised
    /\ \E c \in N3 \X N3 : tboard[c[1]][c[2]] = O
    /\ \E c \in N3 \X N3 : tboard[c[1]][c[2]] = EMPTY

----------------------------------------------------------------------------
\* the value of a board under optimal play by both sides: the utility of a
\* finished game, else the best value the side to move can reach
\* tabulated by number of EMPTY cells, from the full boards upwards
RECURSIVE GameValueUpTo(_)
GameValueUpTo(n) ==
    LET before == IF n = 0 THEN <<>> ELSE GameValueUpTo(n - 1)
        below == IF n = 0 THEN <<>> ELSE before[n]
    IN  Append(before,
            [b \in BoardsWith[n] |->
                IF winner(b) # EMPTY \/ n = 0
                THEN (IF winner(b) = X THEN 1 ELSE IF winner(b) = O THEN -1 ELSE 0)
                ELSE LET reach == {below[[b EXCEPT ![a[1]][a[2]] = player(b)]] : a \in actions(b)}
                     IN  IF player(b) = X THEN Max(reach) ELSE Min(reach)] @@ <<>>)

GameValueTable == GameValueUpTo(9)

GameValue(b) == GameValueTable[Cardinality(actions(b)) + 1][b]

\* C13: minimax returns None exactly on terminal boards; on every other
\* board reachable from initial_state each value it can return is an action
\* of actions(board) whose resulting board has the optimal game value for
\* the side to move (maximal for X, minimal for O); and a game that
\* ai_player has played with minimax's moves from initial_state on never
\* ends with the other side as winner
C13_Minimax ==
    /\ LET returned == minimax(tboard)
       IN  IF terminal(tboard)
           THEN returned = {None}
           ELSE /\ None \notin returned
                /\ returned # {}
                /\ returned \subseteq actions(tboard)
                /\ LET value == [a \in actions(tboard) |-> GameValue(result(tboard, a).ret)]
                       optimal == IF player(tboard) = X
                                  THEN Max({value[a] : a \in actions(tboard)})
                                  ELSE Min({value[a] : a \in actions(tboard)})
                   IN  \A a \in returned : value[a] = optimal
    /\ (ai_player # EMPTY /\ terminal(tboard)) => winner(tboard) \in {ai_player, EMPTY}

\* a finished game that ai_player, moving second, has played to a full board
C13_Witness ==
    /\ ai_player = O
    /\ terminal(tboard)
    /\ actions(tboard) = {}
    /\ winner(tboard) = EMPTY

----------------------------------------------------------------------------
\* C20: in the move-driver loop every move returned is a cell that is not
\* in moves_made, recording its observation makes moves_made grow by
\* exactly that cell, the moves returned never number more than
\* height * width, and the loop eventually halts: on a mine, or when
\* make_safe_move and make_random_move both return None
C20_DriverProgress ==
    /\ [](MovePending => ret \notin moves_made)
    /\ [][(MovePending /\ op' = "add_knowledge") =>
            /\ moves_made' = moves_made \cup {ret}
            /\ Cardinality(moves_made') = Cardinality(moves_made) + 1]_vars
    /\ [](Cardinality(moves_made) + (IF MovePending THEN 1 ELSE 0) <= height * width)
    /\ []((game = "lost") => (MovePending /\ is_mine(ret)))
    /\ []((game = "halted") => (make_safe_move = {None} /\ make_random_move = {None}))
    /\ <>(game \in {"lost", "halted"})

\* a game won: the driver has halted with every mine located and every
\* other cell revealed
C20_Witness ==
    /\ game = "halted"
    /\ mines = board
    /\ board # {}
    /\ moves_made = AllCells \ board
    /\ Cardinality(moves_made) >= 3

====
